---- MODULE Spec2Model ----
(***************************************************************************)
(* CareCompanion: the care store (useCareStore), the schedule generator,   *)
(* the dose state machine with its bounded history, and the two App        *)
(* handlers that drive the store from the AI collaborator                  *)
(* (handleFileUpload, handleCheckInteractions).                            *)
(*                                                                         *)
(* Strings are TLA+ strings and template literals are concatenations, so   *)
(* an identifier is the text the code builds.  Instants are milliseconds   *)
(* counted from 2024-03-09T00:00:00.000Z (EpochDay), which keeps every      *)
(* instant of a run inside TLC's integers; a Date is such an instant.      *)
(* An optional value is a sequence of length 0 (absent) or 1 (present).    *)
(***************************************************************************)
EXTENDS Integers, Sequences, FiniteSets, TLC

VARIABLES
    medicines,           \* CareState.medicines
    doses,               \* CareState.doses
    history,             \* CareState.history, newest first
    remedies,            \* CareState.remedies
    lastExtractionDate,  \* CareState.lastExtractionDate, None for null
    now,                 \* the wall clock read by new Date() and Date.now()
    tz,                  \* the time zone of the host, fixed for a run
    processingStep,      \* App: 'idle' | 'scanning' | 'analyzing' | 'organizing'
    upload,              \* App: position of the handleFileUpload continuation
    extracted,           \* App: the medicines parsePrescription resolved with
    analyzingTimer,      \* App: the setTimeout(..., 1000) of line 161 is pending
    isCheckingInteractions, \* App: the flag of line 130
    check,               \* App: position of handleCheckInteractions
    checkArgs,           \* App: the medicines and remedies the handler captured
    toasts,              \* App: the last toast shown, by kind
    transitions,         \* ghost: every status-changing toggle since the last reset
    lastCall             \* ghost: the last operation and its arguments

storeVars == <<medicines, doses, history, remedies, lastExtractionDate>>
envVars == <<now, tz>>
appVars == <<processingStep, upload, extracted, analyzingTimer,
             isCheckingInteractions, check, checkArgs, toasts>>
vars == <<medicines, doses, history, remedies, lastExtractionDate, now, tz,
          processingStep, upload, extracted, analyzingTimer,
          isCheckingInteractions, check, checkArgs, toasts, transitions, lastCall>>

-----------------------------------------------------------------------------
(* Bounds of the model and constants of the program *)

HorizonDays == 10
HistoryLimit == 100
DefaultDurationDays == 10
MaxTicks == 3
MaxMedicines == 2
MaxToggles == 2
MaxTogglePos == 1
MaxEarly == 2
MaxRemedies == 3
MaxUploads == 1
OrganizingDelayMs == 800

None == <<>>
Some(x) == <<x>>

PENDING == "pending"
TAKEN == "taken"
MISSED == "missed"
DoseStatus == {PENDING, TAKEN, MISSED}

-----------------------------------------------------------------------------
(* The Date object: calendar and time zone *)

MsPerHour == 60 * 60 * 1000
MsPerDay == 24 * MsPerHour

\* days from 1970-01-01 to the civil date y-m-d (proleptic Gregorian)
DaysFromCivil(y, m, d) ==
    LET yy == IF m <= 2 THEN y - 1 ELSE y
        era == yy \div 400
        yoe == yy - era * 400
        mp == IF m > 2 THEN m - 3 ELSE m + 9
        doy == (153 * mp + 2) \div 5 + d - 1
        doe == yoe * 365 + yoe \div 4 - yoe \div 100 + doy
    IN  era * 146097 + doe - 719468

\* the civil date of a day number, as toISOString's YearFromTime,
\* MonthFromTime and DateFromTime give it
CivilFromDays(z) ==
    LET zz == z + 719468
        era == zz \div 146097
        doe == zz - era * 146097
        yoe == (doe - doe \div 1460 + doe \div 36524 - doe \div 146096) \div 365
        doy == doe - (365 * yoe + yoe \div 4 - yoe \div 100)
        mp == (5 * doy + 2) \div 153
        d == doy - (153 * mp + 2) \div 5 + 1
        m == IF mp < 10 THEN mp + 3 ELSE mp - 9
        y == yoe + era * 400 + (IF m <= 2 THEN 1 ELSE 0)
    IN  [year |-> y, month |-> m, day |-> d]

EpochDay == DaysFromCivil(2024, 3, 9)

Pad2(n) == IF n < 10 THEN "0" \o ToString(n) ELSE ToString(n)
Pad3(n) == IF n < 10 THEN "00" \o ToString(n)
           ELSE IF n < 100 THEN "0" \o ToString(n) ELSE ToString(n)

\* the UTC day number of an instant
UtcDay(t) == EpochDay + t \div MsPerDay

\* "YYYY-MM-DD" of a day number (years 1000..9999)
IsoDay(day) ==
    LET c == CivilFromDays(day)
    IN  ToString(c.year) \o "-" \o Pad2(c.month) \o "-" \o Pad2(c.day)

\* date.toISOString().split('T')[0]
IsoDate(t) == IsoDay(UtcDay(t))

\* new Date().toISOString()
ToISOString(t) ==
    LET r == t % MsPerDay
    IN  IsoDate(t) \o "T" \o Pad2(r \div MsPerHour) \o ":"
          \o Pad2((r % MsPerHour) \div 60000) \o ":"
          \o Pad2((r % 60000) \div 1000) \o "." \o Pad3(r % 1000) \o "Z"

\* A time zone: offset `std` hours east of UTC before the instant `at`, and
\* `dst` hours from it on (std = dst: a zone without a transition in the run).
UTCZone == [name |-> "UTC", std |-> 0, dst |-> 0, at |-> 0]
\* America/New_York: EST until 2024-03-10T07:00Z, EDT after
NewYork == [name |-> "America/New_York", std |-> -5, dst |-> -4,
            at |-> (24 + 7) * MsPerHour]
TimeZones == {UTCZone, NewYork}

\* local time value of an instant (LocalTime of ECMA-262)
LocalTime(t, zone) ==
    t + (IF t < zone.at THEN zone.std ELSE zone.dst) * MsPerHour

\* the instant of a local time value (UTC(t) of ECMA-262); a local time
\* skipped or repeated at the transition is read with the offset before it
UtcOfLocal(l, zone) ==
    LET big == IF zone.std > zone.dst THEN zone.std ELSE zone.dst
    IN  IF l < zone.at + big * MsPerHour
        THEN l - zone.std * MsPerHour
        ELSE l - zone.dst * MsPerHour

\* const date = new Date(today); date.setDate(today.getDate() + i):
\* the same local wall-clock time i local days later
SetDatePlus(today, i, zone) ==
    UtcOfLocal(LocalTime(today, zone) + i * MsPerDay, zone)

-----------------------------------------------------------------------------
(* Sequence helpers *)

RECURSIVE Concat(_)
\* the concatenation of a sequence of sequences
Concat(ss) == IF ss = <<>> THEN <<>> ELSE Head(ss) \o Concat(Tail(ss))

\* Array.prototype.slice(0, n)
Slice0(s, n) == IF Len(s) <= n THEN s ELSE SubSeq(s, 1, n)

\* Array.prototype.includes
Includes(s, x) == \E i \in 1..Len(s) : s[i] = x

\* Array.prototype.find on doses by id: the index of the first match, 0 if none
FindDose(ds, doseId) ==
    IF \E i \in 1..Len(ds) : ds[i].id = doseId
    THEN CHOOSE i \in 1..Len(ds) :
            /\ ds[i].id = doseId
            /\ \A j \in 1..(i - 1) : ds[j].id # doseId
    ELSE 0

-----------------------------------------------------------------------------
(* Schedule generator, lines 892-912 *)

\* the dose pushed for medicine med, day offset i and slot (lines 897-909)
\* MakeDose naming the dose after its day offset, not its date
MakeDoseIdByOffset(med, i, slot, today, zone) ==
    LET dateStr == IsoDate(SetDatePlus(today, i, zone))
    IN  [id |-> med.id \o "-" \o ToString(i) \o "-" \o slot,
         medicineId |-> med.id,
         medicineName |-> med.name,
         date |-> dateStr,
         timeSlot |-> slot,
         status |-> PENDING]

MakeDose(med, i, slot, today, zone) ==
    LET dateStr == IsoDate(SetDatePlus(today, i, zone))
    IN  [id |-> med.id \o "-" \o dateStr \o "-" \o slot,
         medicineId |-> med.id,
         medicineName |-> med.name,
         date |-> dateStr,
         timeSlot |-> slot,
         status |-> PENDING]

\* med.timings.forEach(slot => newDoses.push(...)) for one day offset
DosesOfDay(med, i, today, zone) ==
    [k \in 1..Len(med.timings) |-> MakeDose(med, i, med.timings[k], today, zone)]

\* DosesOfMedicine going through the slots first and the days inside
DosesOfMedicineSlotMajor(med, today, zone) ==
    Concat([k \in 1..Len(med.timings) |->
              [j \in 1..HorizonDays |->
                 MakeDose(med, j - 1, med.timings[k], today, zone)]])

\* DosesOfMedicine generating as many days as the medicine's durationDays
DosesOfMedicineByDuration(med, today, zone) ==
    Concat([j \in 1..med.durationDays |-> DosesOfDay(med, j - 1, today, zone)])

\* for (let i = 0; i < 10; i++) { ... } for one medicine
DosesOfMedicine(med, today, zone) ==
    Concat([j \in 1..HorizonDays |-> DosesOfDay(med, j - 1, today, zone)])

\* newMedicines.forEach(med => ...): the newDoses array
NewDoses(newMedicines, today, zone) ==
    Concat([k \in 1..Len(newMedicines) |->
                DosesOfMedicine(newMedicines[k], today, zone)])

-----------------------------------------------------------------------------
(* The care store, lines 863-950 *)

\* the value of the store: the CareState fields
StoreState ==
    [medicines |-> medicines, doses |-> doses, history |-> history,
     remedies |-> remedies, lastExtractionDate |-> lastExtractionDate]

\* the initial state of create(), lines 866-870
InitialState ==
    [medicines |-> <<>>, doses |-> <<>>, history |-> <<>>,
     remedies |-> <<>>, lastExtractionDate |-> None]

\* zustand's set(partial): the fields of partial replace those of state
Merge(state, partial) ==
    [k \in DOMAIN state |->
        IF k \in DOMAIN partial THEN partial[k] ELSE state[k]]

\* the store variables take the value s
Commit(s) ==
    /\ medicines' = s.medicines
    /\ doses' = s.doses
    /\ history' = s.history
    /\ remedies' = s.remedies
    /\ lastExtractionDate' = s.lastExtractionDate

addMedicines(state, newMedicines) ==
    Merge(state, [medicines |-> state.medicines \o newMedicines])

\* addRemedy putting a new name in front
addRemedyFront(state, name) ==
    Merge(state, [remedies |-> IF Includes(state.remedies, name)
                               THEN state.remedies
                               ELSE <<name>> \o state.remedies])

\* addRemedy without the includes test of line 877
addRemedyAlways(state, name) ==
    Merge(state, [remedies |-> state.remedies \o <<name>>])

addRemedy(state, name) ==
    Merge(state, [remedies |-> IF Includes(state.remedies, name)
                               THEN state.remedies
                               ELSE state.remedies \o <<name>>])

removeRemedy(state, name) ==
    LET Keep(r) == r # name
    IN  Merge(state, [remedies |-> SelectSeq(state.remedies, Keep)])

\* interactions[med.id] || undefined
Lookup(interactions, id) ==
    IF id \in DOMAIN interactions THEN Some(interactions[id]) ELSE None

\* updateInteractions as an incremental merge: a medicine without an entry
\* keeps the annotation it had
updateInteractionsMerge(state, interactions) ==
    Merge(state,
      [medicines |->
         [k \in 1..Len(state.medicines) |->
            [state.medicines[k] EXCEPT
               !.potentialInteractions =
                  IF state.medicines[k].id \in DOMAIN interactions
                  THEN Some(interactions[state.medicines[k].id])
                  ELSE @]]])

updateInteractions(state, interactions) ==
    Merge(state,
      [medicines |->
         [k \in 1..Len(state.medicines) |->
            [state.medicines[k] EXCEPT
               !.potentialInteractions = Lookup(interactions, state.medicines[k].id)]]])

\* generateSchedule adding the doses without the medicines
generateScheduleDosesOnly(state, newMedicines, today, zone) ==
    Merge(state,
      [doses |-> state.doses \o NewDoses(newMedicines, today, zone),
       lastExtractionDate |-> Some(ToISOString(today))])

\* generateSchedule putting the new doses in place of the existing ones
generateScheduleReplace(state, newMedicines, today, zone) ==
    Merge(state,
      [medicines |-> state.medicines \o newMedicines,
       doses |-> NewDoses(newMedicines, today, zone),
       lastExtractionDate |-> Some(ToISOString(today))])

generateSchedule(state, newMedicines, today, zone) ==
    Merge(state,
      [medicines |-> state.medicines \o newMedicines,
       doses |-> state.doses \o NewDoses(newMedicines, today, zone),
       lastExtractionDate |-> Some(ToISOString(today))])

\* HistoryEntryOf recording the status the dose had, not the one it gets
HistoryEntryOfOldStatus(targetDose, status, t, rnd) ==
    [id |-> "hist-" \o ToString(t) \o "-" \o rnd,
     medicineName |-> targetDose.medicineName,
     timeSlot |-> targetDose.timeSlot,
     date |-> targetDose.date,
     timestamp |-> ToISOString(t),
     status |-> targetDose.status]

\* the HistoryEntry of lines 927-934
HistoryEntryOf(targetDose, status, t, rnd) ==
    [id |-> "hist-" \o ToString(t) \o "-" \o rnd,
     medicineName |-> targetDose.medicineName,
     timeSlot |-> targetDose.timeSlot,
     date |-> targetDose.date,
     timestamp |-> ToISOString(t),
     status |-> status]

\* state.doses.map(d => d.id === doseId ? { ...d, status } : d)
\* SetStatus with doses.filter in place of doses.map: the other doses go
SetStatusKeepMatching(ds, doseId, status) ==
    LET Matching(d) == d.id = doseId
        kept == SelectSeq(ds, Matching)
    IN  [k \in 1..Len(kept) |-> [kept[k] EXCEPT !.status = status]]

SetStatus(ds, doseId, status) ==
    [k \in 1..Len(ds) |->
        IF ds[k].id = doseId THEN [ds[k] EXCEPT !.status = status] ELSE ds[k]]

\* Record without the slice
RecordUnbounded(entry, hist) == <<entry>> \o hist

\* Record keeping the oldest entries: the new entry goes last
RecordKeepOldest(entry, hist) == Slice0(hist \o <<entry>>, HistoryLimit)

\* [historyEntry, ...state.history].slice(0, 100)
Record(entry, hist) == Slice0(<<entry>> \o hist, HistoryLimit)

\* toggleDose without the early return of line 925
toggleDoseNoSameGuard(state, doseId, status, t, rnd) ==
    LET at == FindDose(state.doses, doseId)
    IN  IF at = 0 THEN state
        ELSE Merge(state,
               [doses |-> SetStatus(state.doses, doseId, status),
                history |-> Record(HistoryEntryOf(state.doses[at], status, t, rnd),
                                   state.history)])

\* toggleDose without the early return of line 923: the entry of a dose that
\* was not found has empty fields
toggleDoseNoMissingGuard(state, doseId, status, t, rnd) ==
    LET at == FindDose(state.doses, doseId)
        blank == [medicineName |-> "", timeSlot |-> "", date |-> ""]
    IN  IF at # 0 /\ state.doses[at].status = status THEN state
        ELSE Merge(state,
               [doses |-> SetStatus(state.doses, doseId, status),
                history |-> Record(HistoryEntryOf(IF at = 0 THEN blank
                                                  ELSE state.doses[at],
                                                  status, t, rnd),
                                   state.history)])

toggleDose(state, doseId, status, t, rnd) ==
    LET at == FindDose(state.doses, doseId)
    IN  IF at = 0 THEN state
        ELSE IF state.doses[at].status = status THEN state
        ELSE Merge(state,
               [doses |-> SetStatus(state.doses, doseId, status),
                history |-> Record(HistoryEntryOf(state.doses[at], status, t, rnd),
                                   state.history)])

\* clearAll forgetting the remedies
clearAllKeepRemedies(state) ==
    [InitialState EXCEPT !.remedies = state.remedies]

clearAll(state) == Merge(state, InitialState)

-----------------------------------------------------------------------------
(* Inputs *)

MedA == [id |-> "med-1-0", name |-> "Aspirin", dosage |-> "500mg",
         frequency |-> "Twice daily", timings |-> <<"Morning", "Night">>,
         durationDays |-> 5, potentialInteractions |-> None]
MedB == [id |-> "med-1-1", name |-> "Warfarin", dosage |-> "1 tablet",
         frequency |-> "Once daily", timings |-> <<"Night">>,
         durationDays |-> 30, potentialInteractions |-> None]

\* two medicines entered by hand: the identifier of one continues the
\* identifier of the other with a date, and a slot is named after a date
MedX == [id |-> "rx", name |-> "Insulin", dosage |-> "10 units",
         frequency |-> "Once daily", timings |-> <<"2024-03-10-Night">>,
         durationDays |-> 10, potentialInteractions |-> None]
MedY == [id |-> "rx-2024-03-09", name |-> "Insulin", dosage |-> "10 units",
         frequency |-> "Once daily", timings |-> <<"Night">>,
         durationDays |-> 10, potentialInteractions |-> None]

\* the medicine lists a caller of the store passes
MedicineLists == {<<>>, <<MedA>>, <<MedB>>, <<MedA, MedB>>, <<MedX, MedY>>}

\* an identifier no dose has
UnknownDoseId == "no-such-dose"

\* Math.random().toString(36).substr(2, 9)
RandomTails == {"4fzyo82mv", "k1x09qpt7"}

InteractionHigh == [severity |-> "high", summary |-> "Bleeding risk",
                    detail |-> "Avoid taking both."]
InteractionMedium == [severity |-> "medium", summary |-> "Take with food",
                      detail |-> "May upset the stomach."]
EmptyMap == <<>>

\* the names entered as remedies; the match of line 877 is exact
RemedyNames == {"Ibuprofen", "ibuprofen", "Vitamin C"}

ClockStart == 22 * MsPerHour

\* the argument-free part of a call record
Call(op, outcome) ==
    [op |-> op, outcome |-> outcome, doseId |-> "", status |-> "",
     list |-> <<>>, name |-> "", map |-> EmptyMap, before |-> 0]

-----------------------------------------------------------------------------
(* Initial state *)

Init ==
    /\ medicines = InitialState.medicines
    /\ doses = InitialState.doses
    /\ history = InitialState.history
    /\ remedies = InitialState.remedies
    /\ lastExtractionDate = InitialState.lastExtractionDate
    /\ now = ClockStart
    /\ tz \in TimeZones
    /\ processingStep = "idle"
    /\ upload = "idle"
    /\ extracted = <<>>
    /\ analyzingTimer = 0
    /\ isCheckingInteractions = FALSE
    /\ check = "idle"
    /\ checkArgs = [medicines |-> <<>>, remedies |-> <<>>]
    /\ toasts = [kind |-> "none", text |-> ""]
    /\ transitions = <<>>
    /\ lastCall = Call("create", "")

-----------------------------------------------------------------------------
(* Store operations as steps *)

\* the clock advances by an hour
Tick ==
    /\ now < ClockStart + MaxTicks * MsPerHour
    /\ now' = now + MsPerHour
    /\ lastCall' = Call("tick", "")
    /\ UNCHANGED <<storeVars, tz, appVars, transitions>>

AddMedicines(list) ==
    /\ Len(medicines) + Len(list) <= MaxMedicines
    /\ Commit(addMedicines(StoreState, list))
    /\ lastCall' = [Call("addMedicines", "") EXCEPT !.list = list]
    /\ UNCHANGED <<envVars, appVars, transitions>>

GenerateSchedule(list) ==
    /\ Len(medicines) + Len(list) <= MaxMedicines
    /\ Commit(generateSchedule(StoreState, list, now, tz))
    /\ lastCall' = [Call("generateSchedule", "") EXCEPT
                      !.list = list, !.before = Len(doses)]
    /\ UNCHANGED <<envVars, appVars, transitions>>

\* how many of the five CareState fields hold something
Filled(state) ==
    Cardinality({k \in {"medicines", "doses", "history", "remedies",
                        "lastExtractionDate"} : Len(state[k]) > 0})

\* the number of medicines that carry an interaction annotation
Annotated(meds) ==
    Cardinality({k \in 1..Len(meds) : meds[k].potentialInteractions # None})

\* what toggleDose(doseId, status) does in the current state
ToggleOutcome(doseId, status) ==
    LET at == FindDose(doses, doseId)
    IN  IF at = 0 THEN "missing"
        ELSE IF doses[at].status = status THEN "same" ELSE "changed"

ToggleDose(doseId, status, rnd) ==
    /\ Commit(toggleDose(StoreState, doseId, status, now, rnd))
    /\ transitions' =
          IF ToggleOutcome(doseId, status) = "changed"
          THEN <<HistoryEntryOf(doses[FindDose(doses, doseId)], status, now, rnd)>>
                  \o transitions
          ELSE transitions
    /\ lastCall' = [Call("toggleDose", ToggleOutcome(doseId, status)) EXCEPT
                      !.doseId = doseId, !.status = status]
    /\ UNCHANGED <<envVars, appVars>>

AddRemedy(name) ==
    /\ Len(remedies) < MaxRemedies
    /\ Commit(addRemedy(StoreState, name))
    /\ lastCall' = [Call("addRemedy", IF Includes(remedies, name)
                                       THEN "present" ELSE "added")
                      EXCEPT !.name = name, !.before = Len(remedies)]
    /\ UNCHANGED <<envVars, appVars, transitions>>

RemoveRemedy(name) ==
    /\ Commit(removeRemedy(StoreState, name))
    /\ lastCall' = [Call("removeRemedy", IF Includes(remedies, name)
                                          THEN "present" ELSE "absent")
                      EXCEPT !.name = name, !.before = Len(remedies)]
    /\ UNCHANGED <<envVars, appVars, transitions>>

\* updateInteractions(map) called on the store
UpdateInteractions(map) ==
    /\ Commit(updateInteractions(StoreState, map))
    /\ lastCall' = [Call("updateInteractions", "direct") EXCEPT
                      !.map = map, !.before = Annotated(medicines)]
    /\ UNCHANGED <<envVars, appVars, transitions>>

ClearAll ==
    /\ Commit(clearAll(StoreState))
    /\ transitions' = <<>>
    /\ lastCall' = [Call("clearAll", "") EXCEPT !.before = Filled(StoreState)]
    /\ UNCHANGED <<envVars, appVars>>

-----------------------------------------------------------------------------
(* geminiService.ts: the calls to the AI collaborator *)

\* what the collaborator's extraction returns: records without identifiers;
\* durationDays 0 stands for a missing or zero value
RawA == [name |-> "Aspirin", dosage |-> "500mg", frequency |-> "Twice daily",
         timings |-> <<"Morning", "Night">>, durationDays |-> 5]
RawB == [name |-> "Warfarin", dosage |-> "1 tablet", frequency |-> "Once daily",
         timings |-> <<"Night">>, durationDays |-> 0]

\* the outcomes of ai.models.generateContent for a prescription: a JSON
\* array, a response without text, a failed call
ExtractionReplies ==
    {[kind |-> "json", parsed |-> <<>>],
     [kind |-> "json", parsed |-> <<RawA, RawB>>],
     [kind |-> "empty", parsed |-> <<>>],
     [kind |-> "error", parsed |-> <<>>]}

\* parsePrescription, lines 26-59: the medicines, or a rethrown error
parsePrescription(reply, t) ==
    IF reply.kind = "json"
    THEN [ok |-> TRUE,
          value |-> [k \in 1..Len(reply.parsed) |->
             [id |-> "med-" \o ToString(t) \o "-" \o ToString(k - 1),
              name |-> reply.parsed[k].name,
              dosage |-> reply.parsed[k].dosage,
              frequency |-> reply.parsed[k].frequency,
              timings |-> reply.parsed[k].timings,
              durationDays |-> IF reply.parsed[k].durationDays = 0
                               THEN DefaultDurationDays
                               ELSE reply.parsed[k].durationDays,
              potentialInteractions |-> None]]]
    ELSE [ok |-> FALSE, value |-> <<>>]

\* the mappings the collaborator may answer with for the medicines meds: none,
\* the first medicine, every medicine, the first and an identifier of no medicine
MapsFor(meds) ==
    {EmptyMap}
      \cup (IF meds = <<>> THEN {}
            ELSE {meds[1].id :> InteractionHigh,
                  [id \in {meds[k].id : k \in 1..Len(meds)} |-> InteractionMedium],
                  (meds[1].id :> InteractionMedium) @@ ("med-9-9" :> InteractionHigh)})

\* the outcomes of ai.models.generateContent for an interaction check
InteractionReplies(meds) ==
    {[kind |-> "json", map |-> m] : m \in MapsFor(meds)}
      \cup {[kind |-> "empty", map |-> EmptyMap], [kind |-> "error", map |-> EmptyMap]}

\* checkInteractions returning early only when both lists are empty
checkInteractionsBothEmpty(meds, rems, reply) ==
    IF Len(rems) = 0 /\ Len(meds) = 0
    THEN [ok |-> TRUE, value |-> EmptyMap, asked |-> FALSE]
    ELSE IF reply.kind = "json"
         THEN [ok |-> TRUE, value |-> reply.map, asked |-> TRUE]
         ELSE [ok |-> TRUE, value |-> EmptyMap, asked |-> TRUE]

\* checkInteractions, lines 61-96: the mapping returned, or a thrown error;
\* asked tells whether ai.models.generateContent was called
checkInteractions(meds, rems, reply) ==
    IF Len(rems) = 0 \/ Len(meds) = 0
    THEN [ok |-> TRUE, value |-> EmptyMap, asked |-> FALSE]
    ELSE IF reply.kind = "json"
         THEN [ok |-> TRUE, value |-> reply.map, asked |-> TRUE]
    ELSE IF reply.kind = "empty"
         THEN [ok |-> TRUE, value |-> EmptyMap, asked |-> TRUE]
    ELSE [ok |-> TRUE, value |-> EmptyMap, asked |-> TRUE]

\* a caller applies checkInteractions to the medicines and remedies of the
\* store; reply is what generateContent would answer if it were asked
CheckInteractions(reply) ==
    /\ LET r == checkInteractions(medicines, remedies, reply)
       IN  lastCall' = [Call("checkInteractions",
                             IF r.asked THEN "asked" ELSE "not-asked")
                          EXCEPT !.list = medicines, !.before = Len(remedies),
                                 !.map = r.value]
    /\ UNCHANGED <<storeVars, envVars, appVars, transitions>>

-----------------------------------------------------------------------------
(* App: handleFileUpload, lines 151-179 *)

Toast(kind, text) == [kind |-> kind, text |-> text]

\* e.target.files?.[0] of an enabled upload control
UploadStart(hasFile) ==
    /\ processingStep = "idle"
    /\ upload = "idle"
    /\ now < ClockStart + MaxUploads * OrganizingDelayMs
    /\ IF hasFile
       THEN /\ processingStep' = "scanning"
            /\ upload' = "reading"
       ELSE UNCHANGED <<processingStep, upload>>
    /\ lastCall' = Call("handleFileUpload", IF hasFile THEN "started" ELSE "no-file")
    /\ UNCHANGED <<storeVars, envVars, extracted, analyzingTimer,
                   isCheckingInteractions, check, checkArgs, toasts, transitions>>

\* reader.onloadend up to the await of parsePrescription; without a result
\* (reader.result is null) line 160 throws inside the async callback
ReaderLoadEnd(hasResult) ==
    /\ upload = "reading"
    /\ IF hasResult
       THEN /\ analyzingTimer' = analyzingTimer + 1
            /\ upload' = "parsing"
       ELSE /\ upload' = "rejected"
            /\ UNCHANGED analyzingTimer
    /\ lastCall' = Call("onloadend", IF hasResult THEN "read" ELSE "rejected")
    /\ UNCHANGED <<storeVars, envVars, processingStep, extracted,
                   isCheckingInteractions, check, checkArgs, toasts, transitions>>

\* setTimeout(() => setProcessingStep('analyzing'), 1000)
AnalyzingTimerFires ==
    /\ analyzingTimer > 0
    /\ analyzingTimer' = analyzingTimer - 1
    /\ processingStep' = "analyzing"
    /\ lastCall' = Call("analyzingTimer", "")
    /\ UNCHANGED <<storeVars, envVars, upload, extracted,
                   isCheckingInteractions, check, checkArgs, toasts, transitions>>

\* await parsePrescription(base64) settles; a rejection leaves the callback
ParseSettles(reply) ==
    /\ upload = "parsing"
    /\ LET r == parsePrescription(reply, now)
       IN  IF r.ok
           THEN /\ extracted' = r.value
                /\ processingStep' = "organizing"
                /\ upload' = "organizing"
           ELSE /\ upload' = "rejected"
                /\ UNCHANGED <<extracted, processingStep>>
    /\ lastCall' = Call("parsePrescription", reply.kind)
    /\ UNCHANGED <<storeVars, envVars, analyzingTimer,
                   isCheckingInteractions, check, checkArgs, toasts, transitions>>

\* lines 166-171 without the guard on the length
ScheduleExtractedAlways(state, extractedMedicines, today, zone) ==
    generateSchedule(state, extractedMedicines, today, zone)

\* lines 166-171: the store after the handler has looked at the extraction
ScheduleExtracted(state, extractedMedicines, today, zone) ==
    IF Len(extractedMedicines) > 0
    THEN generateSchedule(state, extractedMedicines, today, zone)
    ELSE state

\* the 800 ms of line 164 have passed: lines 166-172
UploadOrganized ==
    /\ upload = "organizing"
    /\ now' = now + OrganizingDelayMs
    /\ Commit(ScheduleExtracted(StoreState, extracted, now', tz))
    /\ toasts' = IF Len(extracted) > 0
                 THEN Toast("success", "Schedule updated")
                 ELSE Toast("error", "I couldn't find any clear medicine details.")
    /\ processingStep' = "idle"
    /\ upload' = "idle"
    /\ lastCall' = [Call("uploadOrganized",
                         IF Len(extracted) > 0 THEN "scheduled" ELSE "nothing-extracted")
                      EXCEPT !.list = extracted, !.before = Len(doses)]
    /\ UNCHANGED <<tz, extracted, analyzingTimer,
                   isCheckingInteractions, check, checkArgs, transitions>>

-----------------------------------------------------------------------------
(* App: handleCheckInteractions, lines 188-209 *)

CheckStart ==
    /\ ~isCheckingInteractions
    /\ IF Len(medicines) = 0 \/ Len(remedies) = 0
       THEN /\ toasts' = Toast("error", "Need both prescriptions and OTC remedies to check.")
            /\ UNCHANGED <<isCheckingInteractions, check, checkArgs>>
       ELSE /\ isCheckingInteractions' = TRUE
            /\ toasts' = Toast("loading", "Analyzing safety and interactions...")
            /\ checkArgs' = [medicines |-> medicines, remedies |-> remedies]
            /\ check' = "awaiting"
    /\ lastCall' = Call("handleCheckInteractions",
                        IF Len(medicines) = 0 \/ Len(remedies) = 0
                        THEN "refused" ELSE "started")
    /\ UNCHANGED <<storeVars, envVars, processingStep, upload, extracted,
                   analyzingTimer, transitions>>

\* await checkInteractions(medicines, remedies) settles: lines 196-207
CheckSettles(reply) ==
    /\ check = "awaiting"
    /\ LET r == checkInteractions(checkArgs.medicines, checkArgs.remedies, reply)
       IN  IF r.ok
           THEN /\ Commit(updateInteractions(StoreState, r.value))
                /\ toasts' = IF Cardinality(DOMAIN r.value) > 0
                             THEN Toast("error", "Caution: Found potential interactions.")
                             ELSE Toast("success", "No critical interactions found.")
                /\ lastCall' = [Call("updateInteractions", reply.kind) EXCEPT
                                  !.map = r.value, !.before = Annotated(medicines)]
           ELSE /\ UNCHANGED storeVars
                /\ toasts' = Toast("error", "Failed to check interactions.")
                /\ lastCall' = [Call("checkFailed", reply.kind) EXCEPT
                                  !.before = Annotated(medicines)]
    /\ isCheckingInteractions' = FALSE
    /\ check' = "idle"
    /\ UNCHANGED <<envVars, processingStep, upload, extracted, analyzingTimer,
                   checkArgs, transitions>>

-----------------------------------------------------------------------------
(* The App handlers over the store *)

\* the remedy the user enters and removes while the handlers run
AppRemedies == {"Ibuprofen"}

NextApp ==
    \/ \E hasFile \in BOOLEAN : UploadStart(hasFile)
    \/ \E hasResult \in BOOLEAN : ReaderLoadEnd(hasResult)
    \/ AnalyzingTimerFires
    \/ \E reply \in ExtractionReplies : ParseSettles(reply)
    \/ UploadOrganized
    \/ \E name \in AppRemedies : AddRemedy(name)
    \/ \E name \in AppRemedies : RemoveRemedy(name)
    \/ CheckStart
    \/ \E reply \in InteractionReplies(checkArgs.medicines) : CheckSettles(reply)

SpecApp == Init /\ [][NextApp]_vars

-----------------------------------------------------------------------------
(* The schedule generator under the clock and the time zone *)

NextSchedule ==
    \/ Tick
    \/ \E list \in MedicineLists : GenerateSchedule(list)
    \/ \E list \in MedicineLists : AddMedicines(list)
    \/ ClearAll

SpecSchedule == Init /\ [][NextSchedule]_vars

-----------------------------------------------------------------------------
(* The dose state machine: schedules, toggles and resets *)

Min(a, b) == IF a < b THEN a ELSE b

\* the dose identifiers a caller toggles: those of the first doses, and one
\* that no dose has
ToggleTargets ==
    {doses[i].id : i \in 1..Min(Len(doses), MaxTogglePos)} \cup {UnknownDoseId}

\* the medicine lists scheduled before doses are toggled
ToggleLists == {<<MedA>>, <<MedB>>}

Next ==
    \/ \E list \in ToggleLists : GenerateSchedule(list)
    \/ /\ Len(transitions) < MaxToggles
       /\ \E doseId \in ToggleTargets, status \in DoseStatus, rnd \in RandomTails :
             ToggleDose(doseId, status, rnd)
    \/ ClearAll

Spec == Init /\ [][Next]_vars

-----------------------------------------------------------------------------
(* The history ledger filled past its capacity *)

\* the transitions of a ledger run: two more than the ledger holds
MaxLedger == HistoryLimit + 2

\* the status the "taken" button of a dose asks for, line 499
TakenButton(dose) == IF dose.status = TAKEN THEN PENDING ELSE TAKEN

\* the status the "missed" button of a dose asks for, line 510
MissedButton(dose) == IF dose.status = MISSED THEN PENDING ELSE MISSED

\* The same medicine is scheduled up to MaxMedicines times.
\* One dose is toggled over and over with its "taken" button; the "missed"
\* button is pressed only among the first MaxEarly transitions, and a call
\* that asks for the current status or names no dose may come at any time.
NextLedger ==
    \/ /\ Len(medicines) < MaxMedicines
       /\ GenerateSchedule(<<MedB>>)
    \/ /\ doses # <<>>
       /\ Len(transitions) < MaxLedger
       /\ \/ ToggleDose(doses[1].id, TakenButton(doses[1]), "4fzyo82mv")
          \/ /\ Len(transitions) < MaxEarly
             /\ ToggleDose(doses[1].id, MissedButton(doses[1]), "k1x09qpt7")
          \/ ToggleDose(doses[1].id, doses[1].status, "4fzyo82mv")
          \/ ToggleDose(UnknownDoseId, TAKEN, "4fzyo82mv")
    \/ ClearAll

SpecLedger == Init /\ [][NextLedger]_vars

-----------------------------------------------------------------------------
(* The whole aggregate: remedies beside one scheduled medicine *)

\* Remedies are entered and removed, one medicine is scheduled and its first
\* dose toggled, a medicine is entered without a schedule, the medicines are
\* annotated, and the aggregate is reset.
NextCare ==
    \/ \E name \in RemedyNames : AddRemedy(name)
    \/ \E name \in RemedyNames : RemoveRemedy(name)
    \/ /\ medicines = <<>>
       /\ GenerateSchedule(<<MedB>>)
    \/ /\ doses # <<>>
       /\ Len(transitions) < MaxToggles
       /\ ToggleDose(doses[1].id, TakenButton(doses[1]), "4fzyo82mv")
    \/ ClearAll
    \/ \E reply \in InteractionReplies(<<MedB>>) : CheckInteractions(reply)
    \/ AddMedicines(<<MedA>>)
    \/ \E map \in MapsFor(medicines) : UpdateInteractions(map)

SpecCare == Init /\ [][NextCare]_vars

-----------------------------------------------------------------------------
(* Claims about the schedule generator *)

Range(s) == {s[i] : i \in 1..Len(s)}

\* the doses the last generateSchedule call appended
AddedDoses == SubSeq(doses, lastCall.before + 1, Len(doses))

\* the calendar dates T, T+1, ..., T+9 for T the ISO date of the instant t
HorizonDates(t) == {IsoDay(UtcDay(t) + k) : k \in 0..(HorizonDays - 1)}

\* C1: after generateSchedule(M) at current date T the added doses have the
\* date set {T, ..., T+9}, and for each medicine of M, each of its slots and
\* each of those dates exactly one added dose has that medicine, date and slot.
C1_TenConsecutiveDays ==
    (lastCall.op = "generateSchedule" /\ AddedDoses # <<>>) =>
        LET added == AddedDoses
            M == lastCall.list
        IN  /\ {added[i].date : i \in 1..Len(added)} = HorizonDates(now)
            /\ \A k \in 1..Len(M) : \A s \in Range(M[k].timings) :
                 \A d \in HorizonDates(now) :
                    Cardinality({i \in 1..Len(added) :
                                    /\ added[i].medicineId = M[k].id
                                    /\ added[i].date = d
                                    /\ added[i].timeSlot = s}) = 1

\* C2: no two dose records of the dose set share an identifier.
C2_DoseIdsUnique ==
    \A i, j \in 1..Len(doses) : i # j => doses[i].id # doses[j].id

-----------------------------------------------------------------------------
(* Claims about the history ledger *)

\* C3: the history never holds more than 100 entries.
C3_HistoryAtMostLimit == Len(history) <= HistoryLimit

\* a run has made more status changes than the ledger holds, and it is full
C3_Witness == Len(transitions) > HistoryLimit /\ Len(history) = HistoryLimit

\* C4: the history is the first min(N, 100) entries of the newest-first
\* sequence of the N status-changing transitions since the last reset; after
\* more than 100 of them it has exactly 100 entries.
C4_HistoryIsNewestHundred ==
    /\ history = Slice0(transitions, HistoryLimit)
    /\ Len(transitions) > HistoryLimit => Len(history) = HistoryLimit

\* two entries have been evicted and the oldest kept entry is not the oldest
\* transition
C4_Witness ==
    /\ Len(transitions) = HistoryLimit + 2
    /\ history[HistoryLimit] = transitions[HistoryLimit]
    /\ history[HistoryLimit] # transitions[HistoryLimit + 2]

-----------------------------------------------------------------------------
(* Claims about toggleDose *)

\* the dose toggleDose(doseId, ...) finds in the current doses, 0 if none
Target(doseId) == FindDose(doses, doseId)

\* C5: toggleDose(id, s) on a dose whose status is s leaves the whole
\* CareState as it was: no dose changes and no history entry is added.
C5_ToggleSameStatusIsNoOp ==
    [][(/\ lastCall'.op = "toggleDose"
        /\ Target(lastCall'.doseId) # 0
        /\ doses[Target(lastCall'.doseId)].status = lastCall'.status)
       => UNCHANGED storeVars]_vars

\* a dose that was taken has been asked to be taken again
C5_Witness ==
    /\ lastCall.op = "toggleDose"
    /\ lastCall.outcome = "same"
    /\ lastCall.status = TAKEN
    /\ Target(lastCall.doseId) # 0
    /\ doses[Target(lastCall.doseId)].status = TAKEN
    /\ history # <<>>

\* C6: toggleDose(id, s) on an existing dose whose status is not s gives that
\* dose the status s and puts in front of the history an entry with the
\* dose's medicineName, timeSlot and date and the status s; the previous
\* history follows it, cut so that the whole has at most 100 entries.
C6_ToggleSetsStatusAndRecords ==
    [][(/\ lastCall'.op = "toggleDose"
        /\ Target(lastCall'.doseId) # 0
        /\ doses[Target(lastCall'.doseId)].status # lastCall'.status)
       => LET d == doses[Target(lastCall'.doseId)]
          IN  /\ Len(doses') = Len(doses)
              /\ doses'[Target(lastCall'.doseId)] =
                    [d EXCEPT !.status = lastCall'.status]
              /\ history' # <<>>
              /\ history'[1].medicineName = d.medicineName
              /\ history'[1].timeSlot = d.timeSlot
              /\ history'[1].date = d.date
              /\ history'[1].status = lastCall'.status
              /\ Tail(history') = Slice0(history, HistoryLimit - 1)
              /\ Len(history') <= HistoryLimit]_vars

\* a status change was recorded in a full ledger, which dropped its oldest entry
C6_Witness ==
    /\ lastCall.op = "toggleDose"
    /\ lastCall.outcome = "changed"
    /\ Len(transitions) > HistoryLimit
    /\ doses[Target(lastCall.doseId)].status = lastCall.status
    /\ history[1].status = lastCall.status
    /\ history[HistoryLimit] # transitions[Len(transitions)]

\* C7: toggleDose on an identifier that no dose has changes nothing:
\* medicines, doses, history, remedies and lastExtractionDate stay as they were.
C7_ToggleUnknownIdIsNoOp ==
    [][(lastCall'.op = "toggleDose" /\ Target(lastCall'.doseId) = 0)
       => UNCHANGED storeVars]_vars

\* an identifier that matches none of the existing doses has been toggled
C7_Witness ==
    /\ lastCall.op = "toggleDose"
    /\ lastCall.outcome = "missing"
    /\ doses # <<>>
    /\ Target(lastCall.doseId) = 0

-----------------------------------------------------------------------------
(* Claims about the App handlers *)

\* C8: when the collaborator's interaction check fails, the failure is
\* reported and every medicine keeps the interaction annotation it had.
C8_FailedCheckKeepsAnnotations ==
    [][(check = "awaiting" /\ check' = "idle" /\ lastCall'.outcome = "error")
       => /\ medicines' = medicines
          /\ toasts' = Toast("error", "Failed to check interactions.")]_vars

\* C9: an upload whose extraction fails, or yields no medicine, changes
\* nothing in the store: medicines, doses, history, remedies and
\* lastExtractionDate stay as they were, and a failed upload does not resume.
C9_NothingExtractedLeavesStore ==
    [][/\ (upload' = "rejected" /\ upload # "rejected") => UNCHANGED storeVars
       /\ (upload = "organizing" /\ upload' = "idle" /\ extracted = <<>>)
             => UNCHANGED storeVars
       /\ upload = "rejected" => upload' = "rejected"]_vars

\* an upload has ended with an extraction of no medicine
C9_Witness ==
    /\ lastCall.op = "uploadOrganized"
    /\ lastCall.outcome = "nothing-extracted"
    /\ upload = "idle"
    /\ toasts.kind = "error"
    /\ lastExtractionDate = None

\* C10: updateInteractions(map) gives every medicine the annotation map[id]
\* when the map has an entry for its id and no annotation otherwise, whatever
\* annotation it had; with the empty map no medicine keeps an annotation.
C10_UpdateInteractionsOverwrites ==
    [][lastCall'.op = "updateInteractions"
       => /\ Len(medicines') = Len(medicines)
          /\ \A k \in 1..Len(medicines) :
               medicines'[k] =
                 [medicines[k] EXCEPT !.potentialInteractions =
                    IF medicines[k].id \in DOMAIN lastCall'.map
                    THEN <<lastCall'.map[medicines[k].id]>>
                    ELSE <<>>]
          /\ (DOMAIN lastCall'.map = {} => Annotated(medicines') = 0)]_vars

\* medicines that carried annotations were updated with the empty map
C10_Witness ==
    /\ lastCall.op = "updateInteractions"
    /\ DOMAIN lastCall.map = {}
    /\ lastCall.before > 0
    /\ medicines # <<>>
    /\ Annotated(medicines) = 0

-----------------------------------------------------------------------------
(* Claims about the remedies *)

\* C11: in every reachable state no remedy name occurs twice in remedies;
\* adding a name that is already present leaves its single occurrence.
C11_RemedyNamesUnique ==
    \A i, j \in 1..Len(remedies) : remedies[i] = remedies[j] => i = j

\* a name already in the list was added again and is still there once
C11_Witness ==
    /\ lastCall.op = "addRemedy"
    /\ lastCall.outcome = "present"
    /\ Cardinality({i \in 1..Len(remedies) : remedies[i] = lastCall.name}) = 1
    /\ Len(remedies) = lastCall.before

-----------------------------------------------------------------------------
(* Claims about the dose identifier *)

\* the (medicine id, date, slot) triple a dose was generated for
Triple(d) == <<d.medicineId, d.date, d.timeSlot>>

\* C12: any two doses generated for the same (medicineId, date, slot) triple
\* have the same identifier, also when separate generateSchedule calls
\* produced them.
C12_SameTripleSameId ==
    \A i, j \in 1..Len(doses) :
        Triple(doses[i]) = Triple(doses[j]) => doses[i].id = doses[j].id

\* a later generateSchedule call produced a dose for a triple that an
\* earlier call had produced a dose for
C12_Witness ==
    /\ lastCall.op = "generateSchedule"
    /\ \E i \in 1..lastCall.before :
         \E j \in (lastCall.before + 1)..Len(doses) :
            /\ Triple(doses[i]) = Triple(doses[j])
            /\ doses[i].id = doses[j].id

\* C13: two doses generated for distinct (medicine id, date, slot) triples
\* never have the same identifier, whatever the medicine ids and slot names.
C13_DistinctTripleDistinctId ==
    \A i, j \in 1..Len(doses) :
        doses[i].id = doses[j].id => Triple(doses[i]) = Triple(doses[j])

-----------------------------------------------------------------------------
(* Claims about generateSchedule and clearAll *)

\* the identifiers of the medicines of a list
IdsOf(list) == {list[k].id : k \in 1..Len(list)}

\* C14: generateSchedule(list) appends and never replaces: afterwards the
\* medicines are the previous medicines followed by list, the doses are the
\* previous doses, each with its status, followed by new pending doses of the
\* medicines of list, lastExtractionDate is the current time, and history and
\* remedies are unchanged; repeated calls accumulate.
C14_GenerateScheduleAppends ==
    [][lastCall'.op = "generateSchedule"
       => /\ medicines' = medicines \o lastCall'.list
          /\ Len(doses') >= Len(doses)
          /\ SubSeq(doses', 1, Len(doses)) = doses
          /\ \A k \in (Len(doses) + 1)..Len(doses') :
                /\ doses'[k].medicineId \in IdsOf(lastCall'.list)
                /\ doses'[k].status = PENDING
          /\ (\E k \in 1..Len(lastCall'.list) : lastCall'.list[k].timings # <<>>)
                => Len(doses') > Len(doses)
          /\ lastExtractionDate' = Some(ToISOString(now))
          /\ UNCHANGED <<history, remedies>>]_vars

\* a second schedule was generated after a dose of the first had been
\* toggled: the toggled dose and the ledger are still there
C14_Witness ==
    /\ lastCall.op = "generateSchedule"
    /\ lastCall.before > 0
    /\ Len(doses) > lastCall.before
    /\ Len(medicines) > Len(lastCall.list)
    /\ \E i \in 1..lastCall.before : doses[i].status # PENDING
    /\ history # <<>>

\* C15: after clearAll, from whatever state, medicines, doses, history and
\* remedies are empty and lastExtractionDate is absent.
C15_ClearAllResets ==
    lastCall.op = "clearAll"
        => /\ medicines = <<>>
           /\ doses = <<>>
           /\ history = <<>>
           /\ remedies = <<>>
           /\ lastExtractionDate = None

\* clearAll ran in a state where all five fields held something
C15_Witness ==
    /\ lastCall.op = "clearAll"
    /\ lastCall.before = 5
    /\ StoreState = InitialState

-----------------------------------------------------------------------------
(* Claims about checkInteractions *)

\* C16: checkInteractions with an empty remedy list or an empty medicine
\* list returns the empty mapping and does not call the AI collaborator,
\* whatever the collaborator would have answered.
C16_EmptyListShortCircuits ==
    (/\ lastCall.op = "checkInteractions"
     /\ (lastCall.list = <<>> \/ lastCall.before = 0))
        => /\ DOMAIN lastCall.map = {}
           /\ lastCall.outcome = "not-asked"

\* checkInteractions was applied to a scheduled medicine and no remedy
C16_Witness ==
    /\ lastCall.op = "checkInteractions"
    /\ lastCall.list = <<MedB>>
    /\ remedies = <<>>
    /\ lastCall.outcome = "not-asked"

-----------------------------------------------------------------------------
(* Claims about the order and the number of the generated doses *)

RECURSIVE DosesBefore(_, _)
\* the number of doses of the medicines before the k-th of the list, ten days
\* of every slot each
DosesBefore(list, k) ==
    IF k = 1 THEN 0
    ELSE DosesBefore(list, k - 1) + 10 * Len(list[k - 1].timings)

\* C17: the doses appended by generateSchedule(list) are ordered by medicine
\* in the order of list, then by day offset 0..9 ascending, then by slot in
\* the order of the medicine's timings.
C17_AddedDosesOrdered ==
    lastCall.op = "generateSchedule"
        => \A k \in 1..Len(lastCall.list) :
             LET med == lastCall.list[k]
                 n == Len(med.timings)
             IN  \A i \in 0..9 : \A j \in 1..n :
                    LET pos == DosesBefore(lastCall.list, k) + i * n + j
                    IN  /\ pos <= Len(AddedDoses)
                        /\ AddedDoses[pos].medicineId = med.id
                        /\ AddedDoses[pos].date = IsoDate(SetDatePlus(now, i, tz))
                        /\ AddedDoses[pos].timeSlot = med.timings[j]

\* two medicines were scheduled in one call, the first with two slots a day:
\* its Night dose of the first day precedes its Morning dose of the second
C17_Witness ==
    /\ lastCall.op = "generateSchedule"
    /\ lastCall.list = <<MedA, MedB>>
    /\ AddedDoses[2].timeSlot = "Night"
    /\ AddedDoses[3].timeSlot = "Morning"
    /\ AddedDoses[21].medicineId = MedB.id

\* C19: whatever its durationDays, every medicine of generateSchedule(list)
\* gets exactly 10 * |timings| doses, and every appended dose is pending.
C19_TenDaysWhateverDuration ==
    lastCall.op = "generateSchedule"
        => /\ \A k \in 1..Len(lastCall.list) :
                Cardinality({p \in 1..Len(AddedDoses) :
                               AddedDoses[p].medicineId = lastCall.list[k].id})
                  = 10 * Len(lastCall.list[k].timings)
           /\ \A p \in 1..Len(AddedDoses) : AddedDoses[p].status = PENDING

\* a medicine prescribed for 5 days and one prescribed for 30 days were
\* scheduled: 20 and 10 doses
C19_Witness ==
    /\ lastCall.op = "generateSchedule"
    /\ \E k \in 1..Len(lastCall.list) : lastCall.list[k].durationDays < 10
    /\ \E k \in 1..Len(lastCall.list) : lastCall.list[k].durationDays > 10
    /\ Len(AddedDoses) = 30

-----------------------------------------------------------------------------
(* Claims about the upload handler *)

\* C18: every upload that starts, whether the extraction succeeds, finds no
\* medicine or fails, brings processingStep back to idle and signals success
\* or failure, so that the upload control is enabled again. An upload whose
\* callback has ended with an error has no step left to run, so it must have
\* done both by then.
C18_UploadReturnsToIdle ==
    upload = "rejected"
        => /\ processingStep = "idle"
           /\ toasts.kind = "error"

\* Once the callback of an upload has ended with an error, no step of the
\* App brings processingStep back to idle or starts another upload.
RejectedUploadStaysStuck ==
    [][(upload = "rejected" /\ processingStep # "idle")
         => (upload' = "rejected" /\ processingStep' # "idle")]_vars

-----------------------------------------------------------------------------
(* Claims about the life of a dose *)

\* C20: a dose starts pending, and for every dose and every two distinct
\* statuses s and t, one toggleDose(id, t) takes the dose with identifier id
\* from s to t, back to pending included.  Doses that share an identifier
\* are each a dose with that identifier.
C20_AnyStatusToAnyOther ==
    [][/\ lastCall'.op = "generateSchedule"
          => \A k \in (Len(doses) + 1)..Len(doses') : doses'[k].status = PENDING
       /\ lastCall'.op = "toggleDose"
          => /\ Len(doses') = Len(doses)
             /\ \A k \in 1..Len(doses) :
                  (/\ doses[k].id = lastCall'.doseId
                   /\ doses[k].status # lastCall'.status)
                     => doses'[k].status = lastCall'.status]_vars

-----------------------------------------------------------------------------
(* Claims about what the operations leave alone *)

\* C21: in every step other than clearAll every dose present before the step
\* is present after it, with the same id, medicineId, medicineName, date and
\* timeSlot, and its status is changed only by a toggleDose step.
C21_DosesKeptBetweenResets ==
    [][lastCall'.op # "clearAll"
       => /\ Len(doses') >= Len(doses)
          /\ \A k \in 1..Len(doses) :
               /\ doses'[k].id = doses[k].id
               /\ doses'[k].medicineId = doses[k].medicineId
               /\ doses'[k].medicineName = doses[k].medicineName
               /\ doses'[k].date = doses[k].date
               /\ doses'[k].timeSlot = doses[k].timeSlot
               /\ doses'[k].status # doses[k].status
                    => lastCall'.op = "toggleDose"]_vars

\* a dose was toggled while the other nine doses of the medicine stayed
C21_Witness ==
    /\ lastCall.op = "toggleDose"
    /\ lastCall.outcome = "changed"
    /\ Len(doses) = 10
    /\ doses[1].status = lastCall.status
    /\ \A k \in 2..10 : doses[k].status = PENDING

\* the position of x in a sequence that holds it
PosIn(s, x) == CHOOSE i \in 1..Len(s) : s[i] = x

\* C22: addRemedy(n) appends n at the end when it is absent and changes
\* nothing when it is present; removeRemedy(n) takes n out and keeps the
\* others in their order, and changes nothing when n is absent; removing a
\* name right after adding it to a collection without it gives the collection
\* back; neither operation changes medicines, doses or history.
C22_RemedySetSemantics ==
    [][/\ lastCall'.op = "addRemedy"
          => /\ remedies' = IF lastCall'.name \in Range(remedies)
                            THEN remedies
                            ELSE Append(remedies, lastCall'.name)
             /\ UNCHANGED <<medicines, doses, history>>
       /\ lastCall'.op = "removeRemedy"
          => /\ Range(remedies') = Range(remedies) \ {lastCall'.name}
             /\ \A a, b \in Range(remedies') :
                   PosIn(remedies', a) < PosIn(remedies', b)
                      <=> PosIn(remedies, a) < PosIn(remedies, b)
             /\ Len(remedies') = Cardinality(Range(remedies'))
             /\ lastCall'.name \notin Range(remedies) => remedies' = remedies
             /\ UNCHANGED <<medicines, doses, history>>
       /\ \A n \in RemedyNames \ Range(remedies) :
             removeRemedy(addRemedy(StoreState, n), n) = StoreState]_vars

\* the first of three remedies was removed and the other two are in the
\* order they had, beside a scheduled medicine with a toggled dose
C22_Witness ==
    /\ lastCall.op = "removeRemedy"
    /\ lastCall.outcome = "present"
    /\ lastCall.before = 3
    /\ Len(remedies) = 2
    /\ doses # <<>>
    /\ history # <<>>

-----------------------------------------------------------------------------
(* Claims about the timer of the upload handler *)

\* C23: however the 'analyzing' timer, the extraction result and the 800 ms
\* delay interleave, once processingStep is idle it stays idle until a new
\* upload is started: only handleFileUpload moves it away from idle.
C23_IdleUntilNextUpload ==
    [][(processingStep = "idle" /\ processingStep' # "idle")
          => lastCall'.op = "handleFileUpload"]_vars

-----------------------------------------------------------------------------
(* Claims about the frame of toggleDose *)

\* C24: a toggleDose(id, s) that changes the state changes the status of
\* exactly one dose record and adds exactly one history entry; the other dose
\* records, the medicines, the remedies and lastExtractionDate stay as they
\* are, also in states made by repeated generateSchedule calls.
C24_ToggleChangesOneDose ==
    [][(lastCall'.op = "toggleDose" /\ lastCall'.outcome = "changed")
          => /\ Len(doses') = Len(doses)
             /\ Cardinality({k \in 1..Len(doses) : doses'[k] # doses[k]}) = 1
             /\ Len(history') = Len(history) + 1
             /\ SubSeq(history', 2, Len(history')) = history
             /\ UNCHANGED <<medicines, remedies, lastExtractionDate>>]_vars

-----------------------------------------------------------------------------
(* Claims about the doses and their medicines *)

\* C25: in every reachable state the medicineId of each dose is the id of a
\* medicine of the store, and the dose's medicineName is that medicine's name.
C25_DosesReferToMedicines ==
    \A k \in 1..Len(doses) :
        \E m \in 1..Len(medicines) :
            /\ medicines[m].id = doses[k].medicineId
            /\ medicines[m].name = doses[k].medicineName

\* a medicine was scheduled after another had been entered without a
\* schedule: every dose refers to the second medicine
C25_Witness ==
    /\ lastCall.op = "generateSchedule"
    /\ Len(medicines) = 2
    /\ Len(doses) = 10
    /\ \A k \in 1..Len(doses) : doses[k].medicineId = medicines[2].id
    /\ medicines[1].id # medicines[2].id

====
